---------------------------- MODULE Spec2Model ----------------------------
(***************************************************************************)
(* Model of the filename / identity subsystem of the CAD gateway           *)
(* (api/utils/filename_utils.py) and of the gateway handler that consumes  *)
(* it (api/routers/models.py), with the error responses of                 *)
(* api/utils/errors.py and get_model_types of                              *)
(* api/services/clojure_service.py.                                        *)
(*                                                                         *)
(* Python strings are sequences of one-character strings.  Python values   *)
(* (int, float, str) are records with a type tag, see IntV/FloatV/StrV.    *)
(* A Python dict is the sequence of its entries in insertion order, with   *)
(* pairwise distinct keys.                                                 *)
(***************************************************************************)
EXTENDS Integers, Sequences, FiniteSets, TLC

VARIABLES
  model_type,   \* generate_model_filename: argument model_type
  params,       \* generate_model_filename: argument params (a dict)
  identifier,   \* generate_model_filename: <<>> before the call, <<result>> after
  value,        \* encode_param_value: argument value
  encoded,      \* <<>> or <<encode_param_value(value)>>
  decoded,      \* <<>> or <<decode_param_value(encoded)>>
  filename,     \* filename argument of the legacy decoder and of the gateway
  parsed,       \* <<>> or <<outcome of parse_params_from_filename(filename)>>
  extracted,    \* <<>> or <<extract_model_type(filename)>>
  format,       \* get_model_with_format: path parameter format
  pc,           \* get_model_with_format: position of the handler
  trace,        \* get_model_with_format: calls made so far, in order
  remote,       \* result of clojure_service.get_model_file, <<>> before the call
  response      \* <<>> or <<what the handler returns or raises>>

vars == <<model_type, params, identifier, value, encoded, decoded, filename,
          parsed, extracted, format, pc, trace, remote, response>>

identVars == <<model_type, params, identifier>>
codecVars == <<value, encoded, decoded>>
legacyVars == <<filename, parsed, extracted>>
gatewayVars == <<format, pc, trace, remote, response>>

-----------------------------------------------------------------------------
(* Characters and strings *)

\* The printable ASCII characters by code point, 32..126.  Entry 65 stands for
\* the grave accent (code 96), which no string of the model contains.
ASCII ==
  <<" ", "!", "\"", "#", "$", "%", "&", "'", "(", ")", "*", "+", ",", "-", ".", "/",
     "0", "1", "2", "3", "4", "5", "6", "7", "8", "9", ":", ";", "<", "=", ">", "?",
     "@", "A", "B", "C", "D", "E", "F", "G", "H", "I", "J", "K", "L", "M", "N", "O",
     "P", "Q", "R", "S", "T", "U", "V", "W", "X", "Y", "Z", "[", "\\", "]", "^", "_",
     "grave", "a", "b", "c", "d", "e", "f", "g", "h", "i", "j", "k", "l", "m", "n", "o",
     "p", "q", "r", "s", "t", "u", "v", "w", "x", "y", "z", "{", "|", "}", "~">>

Chars == {ASCII[i] : i \in 1..Len(ASCII)}

\* Code point of a character (the printable ASCII range starts at 32).
Ord == [c \in Chars |-> 31 + (CHOOSE i \in 1..Len(ASCII) : ASCII[i] = c)]

Digits == {"0", "1", "2", "3", "4", "5", "6", "7", "8", "9"}

DigitVal(c) == Ord[c] - 48

DigitChar(d) == ASCII[17 + d]

\* "sub in s"
Contains(s, sub) ==
  \E i \in 1..(Len(s) - Len(sub) + 1) : SubSeq(s, i, i + Len(sub) - 1) = sub

\* s.startswith(prefix)
StartsWith(s, prefix) ==
  /\ Len(prefix) <= Len(s)
  /\ SubSeq(s, 1, Len(prefix)) = prefix

\* s[n:]
Drop(s, n) == SubSeq(s, n + 1, Len(s))

\* s[:n]
Take(s, n) == SubSeq(s, 1, IF n < Len(s) THEN n ELSE Len(s))

\* s.replace(old, new): one left-to-right scan, matches do not overlap and the
\* replacement text is not scanned again.
RECURSIVE Replace(_, _, _)
Replace(s, old, new) ==
  IF s = <<>> THEN <<>>
  ELSE IF StartsWith(s, old) THEN new \o Replace(Drop(s, Len(old)), old, new)
  ELSE <<Head(s)>> \o Replace(Tail(s), old, new)

\* Position of the first occurrence of character c in s, 0 when there is none.
FirstIndex(s, c) ==
  IF \E i \in 1..Len(s) : s[i] = c
  THEN CHOOSE i \in 1..Len(s) : s[i] = c /\ \A j \in 1..(i - 1) : s[j] # c
  ELSE 0

\* Position of the last occurrence of character c in s, 0 when there is none.
LastIndex(s, c) ==
  IF \E i \in 1..Len(s) : s[i] = c
  THEN CHOOSE i \in 1..Len(s) : s[i] = c /\ \A j \in (i + 1)..Len(s) : s[j] # c
  ELSE 0

\* s.split(c, 1): at most two parts, cut at the first c.
SplitFirst(s, c) ==
  LET i == FirstIndex(s, c)
  IN  IF i = 0 THEN <<s>> ELSE <<SubSeq(s, 1, i - 1), Drop(s, i)>>

\* s.rsplit(c, 1): at most two parts, cut at the last c.
RSplitLast(s, c) ==
  LET i == LastIndex(s, c)
  IN  IF i = 0 THEN <<s>> ELSE <<SubSeq(s, 1, i - 1), Drop(s, i)>>

\* s.split(c): every part between two c, empty parts kept.
RECURSIVE Split(_, _)
Split(s, c) ==
  LET i == FirstIndex(s, c)
  IN  IF i = 0 THEN <<s>>
      ELSE <<SubSeq(s, 1, i - 1)>> \o Split(Drop(s, i), c)

\* sep.join(parts)
RECURSIVE Join(_, _)
Join(parts, sep) ==
  IF parts = <<>> THEN <<>>
  ELSE IF Len(parts) = 1 THEN parts[1]
  ELSE parts[1] \o sep \o Join(Tail(parts), sep)

\* a < b for Python strings: by code point, a proper prefix is smaller.
RECURSIVE StrLess(_, _)
StrLess(a, b) ==
  IF b = <<>> THEN FALSE
  ELSE IF a = <<>> THEN TRUE
  ELSE IF Ord[Head(a)] # Ord[Head(b)] THEN Ord[Head(a)] < Ord[Head(b)]
  ELSE StrLess(Tail(a), Tail(b))

-----------------------------------------------------------------------------
(* Python values *)

IntV(n) == [t |-> "int", n |-> n, e |-> 0, s |-> <<>>]

\* The float n / 10^e, n having no trailing zero unless e = 0.
FloatV(n, e) == [t |-> "float", n |-> n, e |-> e, s |-> <<>>]

StrV(s) == [t |-> "str", n |-> 0, e |-> 0, s |-> s]

RECURSIVE Pow10(_)
Pow10(k) == IF k = 0 THEN 1 ELSE 10 * Pow10(k - 1)

\* Decimal digits of a natural number.
RECURSIVE NatToStr(_)
NatToStr(n) ==
  IF n < 10 THEN <<DigitChar(n)>>
  ELSE NatToStr(n \div 10) \o <<DigitChar(n % 10)>>

\* str(n) of an int
IntToStr(n) == IF n < 0 THEN <<"-">> \o NatToStr(-n) ELSE NatToStr(n)

\* The k low decimal digits of n, zero padded.
RECURSIVE FracDigits(_, _)
FracDigits(n, k) ==
  IF k = 0 THEN <<>> ELSE FracDigits(n \div 10, k - 1) \o <<DigitChar(n % 10)>>

\* str(x) of a float in the range where repr uses positional notation.
FloatToStr(n, e) ==
  LET a == IF n < 0 THEN -n ELSE n
      sign == IF n < 0 THEN <<"-">> ELSE <<>>
  IN  IF e = 0 THEN sign \o NatToStr(a) \o <<".", "0">>
      ELSE sign \o NatToStr(a \div Pow10(e)) \o <<".">> \o FracDigits(a % Pow10(e), e)

\* str(value)
Str(v) ==
  CASE v.t = "int" -> IntToStr(v.n)
    [] v.t = "float" -> FloatToStr(v.n, v.e)
    [] v.t = "str" -> v.s

\* a == b on Python values: numbers compare by value, strings by content.
PyEq(a, b) ==
  IF a.t = "str" \/ b.t = "str" THEN a.t = b.t /\ a.s = b.s
  ELSE a.n * Pow10(b.e) = b.n * Pow10(a.e)

-----------------------------------------------------------------------------
(* Identity encoder: filename_utils.py, generate_model_filename and helpers *)

FORMAT_EXTENSIONS ==
  (<<"o", "b", "j">> :> <<"o", "b", "j">>) @@
  (<<"s", "t", "l">> :> <<"s", "t", "l">>) @@
  (<<"s", "t", "e", "p">> :> <<"s", "t", "p">>) @@
  (<<"g">> :> <<"g">>)

\* Mutant of get_extension: the format name is the extension.
get_extension_Identity(format_name) == format_name

get_extension(format_name) ==
  IF format_name \in DOMAIN FORMAT_EXTENSIONS
  THEN FORMAT_EXTENSIONS[format_name]
  ELSE format_name

\* Mutant of base_filename: the name is cut at its first ".".
base_filename_FirstDot(fname) ==
  IF Contains(fname, <<".">>) THEN SplitFirst(fname, ".")[1] ELSE fname

base_filename(fname) ==
  IF Contains(fname, <<".">>) THEN RSplitLast(fname, ".")[1] ELSE fname

with_extension(fname, format_name) ==
  LET base == base_filename(fname)
      ext == get_extension(format_name)
  IN  base \o <<".">> \o ext

extract_model_type(fname) ==
  LET base == base_filename(fname)
  IN  IF Contains(base, <<"-">>) THEN SplitFirst(base, "-")[1] ELSE base

\* A dict entry.
Entry(k, v) == [k |-> k, v |-> v]

\* Insertion of one item into a list sorted by key.  Items are (key, value)
\* tuples whose keys are pairwise distinct, so tuple order is key order.
RECURSIVE InsertByKey(_, _)
InsertByKey(e, sorted) ==
  IF sorted = <<>> THEN <<e>>
  ELSE IF StrLess(e.k, Head(sorted).k) THEN <<e>> \o sorted
  ELSE <<Head(sorted)>> \o InsertByKey(e, Tail(sorted))

\* Mutant of SortedItems: the items are left in insertion order.
SortedItems_Unsorted(items) == items

\* sorted(params.items())
RECURSIVE SortedItems(_)
SortedItems(items) ==
  IF items = <<>> THEN <<>>
  ELSE InsertByKey(Head(items), SortedItems(Tail(items)))

\* param_str: the text that is hashed
ParamStr(mtype, ps) ==
  LET sorted_params == SortedItems(ps)
      param_parts == [i \in 1..Len(sorted_params) |->
                        sorted_params[i].k \o <<"=">> \o Str(sorted_params[i].v)]
  IN  mtype \o <<":">> \o Join(param_parts, <<";">>)

\* str.encode('utf-8') on the ASCII strings of the model: one byte per character
Utf8(s) == [i \in 1..Len(s) |-> Ord[s[i]]]

RECURSIVE Absorb(_, _)
Absorb(h, bytes) ==
  IF bytes = <<>> THEN h
  ELSE Absorb((h * 127 + Head(bytes) + 1) % 16777213, Tail(bytes))

RECURSIVE Squeeze(_, _)
Squeeze(h, k) ==
  IF k = 0 THEN <<>>
  ELSE LET h2 == (h * 127 + k) % 16777213
       IN  <<(h2 \div 256) % 256>> \o Squeeze(h2, k - 1)

\* Length in bytes of a SHA-256 digest.
DigestSize == 32

\* hashlib.sha256(data).digest().  The library function is abstracted by a
\* deterministic mixing function with the same signature: a byte string in,
\* DigestSize bytes out, and nothing else read.
Sha256Digest(bytes) == Squeeze(Absorb(11, bytes), DigestSize)

B64 ==
  <<"A", "B", "C", "D", "E", "F", "G", "H", "I", "J", "K", "L", "M", "N", "O", "P",
     "Q", "R", "S", "T", "U", "V", "W", "X", "Y", "Z", "a", "b", "c", "d", "e", "f",
     "g", "h", "i", "j", "k", "l", "m", "n", "o", "p", "q", "r", "s", "t", "u", "v",
     "w", "x", "y", "z", "0", "1", "2", "3", "4", "5", "6", "7", "8", "9", "+", "/">>

\* base64.b64encode: three bytes give four characters, the last group is
\* padded with "=".
RECURSIVE B64Encode(_)
B64Encode(bytes) ==
  IF bytes = <<>> THEN <<>>
  ELSE IF Len(bytes) = 1 THEN
    LET n == bytes[1] * 16
    IN  <<B64[(n \div 64) + 1], B64[(n % 64) + 1], "=", "=">>
  ELSE IF Len(bytes) = 2 THEN
    LET n == bytes[1] * 1024 + bytes[2] * 4
    IN  <<B64[(n \div 4096) + 1], B64[((n \div 64) % 64) + 1], B64[(n % 64) + 1], "=">>
  ELSE
    LET n == bytes[1] * 65536 + bytes[2] * 256 + bytes[3]
    IN  <<B64[(n \div 262144) + 1], B64[((n \div 4096) % 64) + 1],
          B64[((n \div 64) % 64) + 1], B64[(n % 64) + 1]>> \o B64Encode(Drop(bytes, 3))

\* hash_encoded before the replacements
HashEncoded(mtype, ps) == B64Encode(Sha256Digest(Utf8(ParamStr(mtype, ps))))

\* Mutant of ReplaceProblematic: "/" is not replaced.
ReplaceProblematic_KeepSlash(hash_encoded) ==
  Replace(Replace(hash_encoded, <<"+">>, <<"_">>), <<"=">>, <<"_">>)

\* hash_encoded.replace('/', '_').replace('+', '_').replace('=', '_')
ReplaceProblematic(hash_encoded) ==
  Replace(Replace(Replace(hash_encoded, <<"/">>, <<"_">>), <<"+">>, <<"_">>),
          <<"=">>, <<"_">>)

\* Number of characters kept of the encoded hash.
HashLen == 10

generate_hash_from_params(mtype, ps) ==
  Take(ReplaceProblematic(HashEncoded(mtype, ps)), HashLen)

POSITION == <<"p", "o", "s", "i", "t", "i", "o", "n">>

\* Mutant of IsPositionParam: only the prefix "position_" is recognised.
IsPositionParam_UnderscoreOnly(k) == StartsWith(k, POSITION \o <<"_">>)

\* The test of the dict comprehension: the key is a position parameter.
IsPositionParam(k) ==
  StartsWith(k, POSITION) \/ StartsWith(k, POSITION \o <<"_">>)

\* filtered_params: the entries that are not position parameters
FilteredParams(ps) == SelectSeq(ps, LAMBDA e : ~IsPositionParam(e.k))

\* Mutant of generate_model_filename: the hash is joined with "_".
generate_model_filename_Underscore(mtype, ps) ==
  mtype \o <<"_">> \o generate_hash_from_params(mtype, FilteredParams(ps))

\* Mutant of generate_model_filename: the parameters are embedded as
\* key=value, joined with "_", instead of hashed.
generate_model_filename_Legacy(mtype, ps) ==
  LET filtered_params == FilteredParams(ps)
      pairs == [i \in 1..Len(filtered_params) |->
                  filtered_params[i].k \o <<"=">> \o Str(filtered_params[i].v)]
  IN  mtype \o <<"-">> \o Join(pairs, <<"_">>)

generate_model_filename(mtype, ps) ==
  LET filtered_params == FilteredParams(ps)
      param_hash == generate_hash_from_params(mtype, filtered_params)
  IN  mtype \o <<"-">> \o param_hash

-----------------------------------------------------------------------------
(* Inputs of the identity encoder *)

\* Largest number of entries of a parameter dict.
MaxParams == 2

IdentModelTypes == {<<>>, <<"w", "a", "s", "h", "e", "r">>}

IdentKeys ==
  { <<"i", "d">>,
    <<"P", "o", "s", "i", "t", "i", "o", "n">>,
    POSITION,
    POSITION \o <<"X">>,
    POSITION \o <<"_", "x">> }

IdentValues == {IntV(5), StrV(<<"x">>)}

\* The dicts of at most MaxParams entries over a set of keys and of values.
DictsOver(keys, values) ==
  LET entries == {Entry(k, v) : k \in keys, v \in values}
  IN  UNION { {d \in [1..n -> entries] :
                 \A i \in 1..n : \A j \in 1..n : i # j => d[i].k # d[j].k} :
              n \in 0..MaxParams }

ParamDicts == DictsOver(IdentKeys, IdentValues)

\* Values of the variables of an operation that is not running.
IdentIdle == model_type = <<>> /\ params = <<>> /\ identifier = <<>>
CodecIdle == value = StrV(<<>>) /\ encoded = <<>> /\ decoded = <<>>
LegacyIdle == filename = <<>> /\ parsed = <<>> /\ extracted = <<>>
GatewayIdle ==
  format = <<>> /\ pc = "idle" /\ trace = <<>> /\ remote = <<>> /\ response = <<>>

InitIdent ==
  /\ model_type \in IdentModelTypes
  /\ params \in ParamDicts
  /\ identifier = <<>>
  /\ CodecIdle /\ LegacyIdle /\ GatewayIdle

\* A call of generate_model_filename(model_type, params).
GenerateModelFilename ==
  /\ identifier = <<>>
  /\ identifier' = <<generate_model_filename(model_type, params)>>
  /\ UNCHANGED <<model_type, params, codecVars, legacyVars, gatewayVars>>

NextIdent == GenerateModelFilename

SpecIdent == InitIdent /\ [][NextIdent]_vars

\* Inputs whose model type and string values hold the separators ":", ";"
\* and "=" of the hashed text.
CanonModelTypes == {<<>>, <<"w">>, <<"w", ":", "a", "=", "1">>}

CanonKeys == {<<"a">>, <<"b">>}

CanonValues == {IntV(1), IntV(2), StrV(<<"1", ";", "b", "=", "2">>)}

CanonDicts == DictsOver(CanonKeys, CanonValues)

InitCanon ==
  /\ model_type \in CanonModelTypes
  /\ params \in CanonDicts
  /\ identifier = <<>>
  /\ CodecIdle /\ LegacyIdle /\ GatewayIdle

SpecCanon == InitCanon /\ [][NextIdent]_vars

-----------------------------------------------------------------------------
(* Legacy value codec: encode_param_value, decode_param_value *)

NoneV == [t |-> "none", n |-> 0, e |-> 0, s |-> <<>>]

\* Outcome of a call: a returned value, or a raised exception.
Return(v) == [exc |-> "none", v |-> v]
Raise(exc) == [exc |-> exc, v |-> NoneV]

\* s.strip() as int() and float() apply it (the model's only whitespace is " ")
RECURSIVE LStrip(_)
LStrip(s) == IF s # <<>> /\ Head(s) = " " THEN LStrip(Tail(s)) ELSE s

RECURSIVE RStrip(_)
RStrip(s) ==
  IF s # <<>> /\ s[Len(s)] = " " THEN RStrip(SubSeq(s, 1, Len(s) - 1)) ELSE s

Strip(s) == RStrip(LStrip(s))

\* A digit group of a numeric literal: digits, with single "_" between digits.
IsDigitGroup(s) ==
  /\ s # <<>>
  /\ s[1] \in Digits /\ s[Len(s)] \in Digits
  /\ \A i \in 1..Len(s) : s[i] \in Digits \/ s[i] = "_"
  /\ \A i \in 1..(Len(s) - 1) : ~(s[i] = "_" /\ s[i + 1] = "_")

\* Value of the digits of s, "_" skipped.
RECURSIVE DigitsValue(_, _)
DigitsValue(s, acc) ==
  IF s = <<>> THEN acc
  ELSE IF Head(s) = "_" THEN DigitsValue(Tail(s), acc)
  ELSE DigitsValue(Tail(s), 10 * acc + DigitVal(Head(s)))

\* Number of digits of s.
DigitCount(s) == Cardinality({i \in 1..Len(s) : s[i] \in Digits})

\* The literal without its sign, and the sign.
Unsigned(s) == IF s # <<>> /\ s[1] \in {"+", "-"} THEN Tail(s) ELSE s
SignOf(s) == IF s # <<>> /\ s[1] = "-" THEN -1 ELSE 1

\* int(s) of a str, base 10: ValueError unless s is a signed digit group
PyInt(s) ==
  LET body == Unsigned(Strip(s))
  IN  IF IsDigitGroup(body)
      THEN Return(IntV(SignOf(Strip(s)) * DigitsValue(body, 0)))
      ELSE Raise("ValueError")

\* n / 10^e with the trailing zeros of the fraction dropped
RECURSIVE Normalized(_, _)
Normalized(n, e) ==
  IF e > 0 /\ n % 10 = 0 THEN Normalized(n \div 10, e - 1) ELSE FloatV(n, e)

\* float(s) of a str: ValueError unless s is a signed decimal literal, digits
\* on at least one side of an optional ".".  No string of the model that
\* reaches float() holds an exponent or the words inf, nan.
PyFloat(s) ==
  LET body == Unsigned(Strip(s))
      dot == FirstIndex(body, ".")
      ipart == IF dot = 0 THEN body ELSE SubSeq(body, 1, dot - 1)
      fpart == IF dot = 0 THEN <<>> ELSE Drop(body, dot)
      ok == /\ ipart # <<>> \/ fpart # <<>>
            /\ ipart = <<>> \/ IsDigitGroup(ipart)
            /\ fpart = <<>> \/ IsDigitGroup(fpart)
  IN  IF ok
      THEN Return(Normalized(SignOf(Strip(s)) * DigitsValue(ipart \o fpart, 0),
                             DigitCount(fpart)))
      ELSE Raise("ValueError")

DOT == <<"_", "d", "o", "t", "_">>
SLASH == <<"_", "s", "l", "a", "s", "h", "_">>
BACKSLASH == <<"_", "b", "a", "c", "k", "s", "l", "a", "s", "h", "_">>

\* Mutant of encode_param_value: "\\" is not replaced.
encode_param_value_NoBackslash(v) ==
  IF v.t = "none" THEN <<>>
  ELSE Replace(Replace(Str(v), <<".">>, DOT), <<"/">>, SLASH)

encode_param_value(v) ==
  IF v.t = "none" THEN <<>>
  ELSE LET value_str == Str(v)
       IN  Replace(Replace(Replace(value_str, <<".">>, DOT), <<"/">>, SLASH),
                   <<"\\">>, BACKSLASH)

\* Mutant of Unescaped: "_slash_" is not replaced.
Unescaped_NoSlash(value_str) ==
  Replace(Replace(value_str, DOT, <<".">>), BACKSLASH, <<"\\">>)

\* decoded: the three replacements of decode_param_value
Unescaped(value_str) ==
  Replace(Replace(Replace(value_str, DOT, <<".">>), SLASH, <<"/">>),
          BACKSLASH, <<"\\">>)

\* Mutant of ExceptValueError: the handler catches nothing.
ExceptValueError_NoHandler(outcome, fallback) == outcome

\* try: ... except ValueError: return decoded
ExceptValueError(outcome, fallback) ==
  IF outcome.exc = "ValueError" THEN Return(fallback) ELSE outcome

\* Outcome of decode_param_value(value_str)
decode_param_value(value_str) ==
  IF value_str = <<>> THEN Return(StrV(<<>>))
  ELSE LET decoded_str == Unescaped(value_str)
       IN  ExceptValueError(
             IF Contains(decoded_str, <<".">>) THEN PyFloat(decoded_str)
             ELSE PyInt(decoded_str),
             StrV(decoded_str))

-----------------------------------------------------------------------------
(* Inputs of the value codec *)

\* Largest number of pieces a string value is put together from.
MaxPieces == 4

ValuePieces ==
  { <<"_">>, <<".">>, <<"/">>, <<"\\">>, <<"a">>, <<"5">>, <<"-">>,
    <<"d", "o", "t">>, <<"s", "l", "a", "s", "h">>, <<"b", "a", "c", "k">> }

\* The strings put together from exactly n pieces.
RECURSIVE PieceStrings(_)
PieceStrings(n) ==
  IF n = 0 THEN {<<>>}
  ELSE {s \o piece : s \in PieceStrings(n - 1), piece \in ValuePieces}

CodecStrings ==
  UNION {PieceStrings(n) : n \in 0..MaxPieces}
    \cup {<<"a", "/", "b", ".", "c", "\\", "d">>}

CodecInts == {IntV(-5), IntV(0), IntV(7), IntV(10), IntV(42)}

CodecFloats ==
  {FloatV(314, 2), FloatV(25, 1), FloatV(-5, 1), FloatV(10, 0), FloatV(0, 0),
   FloatV(5, 2)}

CodecValues == CodecInts \cup CodecFloats \cup {StrV(s) : s \in CodecStrings}

InitCodec ==
  /\ value \in CodecValues
  /\ encoded = <<>> /\ decoded = <<>>
  /\ IdentIdle /\ LegacyIdle /\ GatewayIdle

\* A call of encode_param_value(value).
EncodeParamValue ==
  /\ encoded = <<>>
  /\ encoded' = <<encode_param_value(value)>>
  /\ UNCHANGED <<value, decoded, identVars, legacyVars, gatewayVars>>

\* A call of decode_param_value on the encoded value.
DecodeParamValue ==
  /\ encoded # <<>> /\ decoded = <<>>
  /\ decoded' = <<decode_param_value(encoded[1])>>
  /\ UNCHANGED <<value, encoded, identVars, legacyVars, gatewayVars>>

NextCodec == EncodeParamValue \/ DecodeParamValue

SpecCodec == InitCodec /\ [][NextCodec]_vars

-----------------------------------------------------------------------------
(* Legacy decoder: parse_params_from_filename *)

\* Mutant of DictSet: the first value of a key is kept.
DictSet_KeepFirst(d, k, v) ==
  IF \E i \in 1..Len(d) : d[i].k = k THEN d ELSE Append(d, Entry(k, v))

\* params[key] = v: a new key is appended, an old key gets the new value.
DictSet(d, k, v) ==
  IF \E i \in 1..Len(d) : d[i].k = k
  THEN [i \in 1..Len(d) |-> IF d[i].k = k THEN Entry(k, v) ELSE d[i]]
  ELSE Append(d, Entry(k, v))

\* The for loop over param_pairs, from the dict built so far.
RECURSIVE ParsePairs(_, _)
ParsePairs(param_pairs, acc) ==
  IF param_pairs = <<>> THEN Return(acc)
  ELSE LET pair == Head(param_pairs)
       IN  IF Contains(pair, <<"=">>)
           THEN LET kv == SplitFirst(pair, "=")
                    r == decode_param_value(kv[2])
                IN  IF r.exc # "none" THEN r
                    ELSE ParsePairs(Tail(param_pairs), DictSet(acc, kv[1], r.v))
           ELSE ParsePairs(Tail(param_pairs), acc)

\* Outcome of parse_params_from_filename(fname)
parse_params_from_filename(fname) ==
  LET base == base_filename(fname)
  IN  IF ~Contains(base, <<"-">>) THEN Return(<<>>)
      ELSE LET params_part == SplitFirst(base, "-")[2]
               param_pairs == Split(params_part, "_")
           IN  ParsePairs(param_pairs, <<>>)

-----------------------------------------------------------------------------
(* Inputs of the legacy decoder *)

\* Largest number of "_"-separated candidates of a generated filename.
MaxCandidates == 2

NameTypes == {<<>>, <<"t">>, <<"a", ".", "b">>}

NameCandidates ==
  { <<>>,
    <<"k">>,
    <<"=">>,
    <<"k", "=">>,
    <<"k", "=", "5">>,
    <<"k", "=", "-", "5">>,
    <<"k", "=", "2", ".", "5">>,
    <<"k", "=", "1", ".", "2", ".", "3">>,
    <<"k", "=", "x">>,
    <<"j", "=", "1", "=", "2">>,
    <<"j", "=", ".">>,
    <<"d", "o", "t">> }

NameExtensions == {<<>>, <<".", "o", "b", "j">>}

\* The candidate lists of exactly n candidates.
RECURSIVE CandidateLists(_)
CandidateLists(n) ==
  IF n = 0 THEN {<<>>}
  ELSE {Append(l, c) : l \in CandidateLists(n - 1), c \in NameCandidates}

\* Filenames with a parameter section, and filenames without a "-".
GeneratedNames ==
  { t \o <<"-">> \o Join(l, <<"_">>) \o x :
      t \in NameTypes,
      l \in UNION {CandidateLists(n) : n \in 1..MaxCandidates},
      x \in NameExtensions }
  \cup {t \o x : t \in NameTypes \cup NameCandidates, x \in NameExtensions}

\* A legacy filename is written from a type, (key, value) pairs and an
\* extension: <type>-<k1>=<e1>_<k2>=<e2>.<ext>, each ei = encode_param_value(vi).
LegacyTypes == {<<"c", "y", "l", "i", "n", "d", "e", "r">>}

LegacyKeys == {<<"r", "a", "d", "i", "u", "s">>, <<"h", "e", "i", "g", "h", "t">>}

LegacyValues ==
  {IntV(5), IntV(10), FloatV(25, 1), StrV(<<"a", "/", "b">>), StrV(<<"x">>)}

LegacyInputs ==
  { [type |-> t, pairs |-> ps, ext |-> <<"o", "b", "j">>] :
      t \in LegacyTypes,
      ps \in { d \in UNION {[1..n -> {Entry(k, v) : k \in LegacyKeys, v \in LegacyValues}] :
                              n \in 1..2} :
                 \A i \in 1..Len(d) : \A j \in 1..Len(d) : i # j => d[i].k # d[j].k } }

LegacyName(l) ==
  l.type \o <<"-">>
    \o Join([i \in 1..Len(l.pairs) |->
               l.pairs[i].k \o <<"=">> \o encode_param_value(l.pairs[i].v)], <<"_">>)
    \o <<".">> \o l.ext

LegacyNames == {LegacyName(l) : l \in LegacyInputs}

\* The filenames the specification quotes.
ExampleNames ==
  { <<"w", "a", "s", "h", "e", "r", "-", "a", "b", "c", "1", "2", "3", ".", "o", "b", "j">>,
    <<"p", "l", "a", "i", "n", ".", "o", "b", "j">> }

FileNames == GeneratedNames \cup LegacyNames \cup ExampleNames

InitLegacy ==
  /\ filename \in FileNames
  /\ parsed = <<>> /\ extracted = <<>>
  /\ IdentIdle /\ CodecIdle /\ GatewayIdle

\* A call of parse_params_from_filename(filename).
ParseParamsFromFilename ==
  /\ parsed = <<>>
  /\ parsed' = <<parse_params_from_filename(filename)>>
  /\ UNCHANGED <<filename, extracted, identVars, codecVars, gatewayVars>>

\* A call of extract_model_type(filename).
ExtractModelType ==
  /\ extracted = <<>>
  /\ extracted' = <<extract_model_type(filename)>>
  /\ UNCHANGED <<filename, parsed, identVars, codecVars, gatewayVars>>

NextLegacy == ParseParamsFromFilename \/ ExtractModelType

SpecLegacy == InitLegacy /\ [][NextLegacy]_vars

-----------------------------------------------------------------------------
(* Gateway: routers/models.py get_model_with_format,                       *)
(* services/clojure_service.py get_model_file, utils/errors.py             *)

HTTP_400_BAD_REQUEST == 400
HTTP_404_NOT_FOUND == 404
HTTP_503_SERVICE_UNAVAILABLE == 503

\* What the client gets: an AppError turned into a response by
\* global_exception_handler, or the file.
AppError(category, status_code) ==
  [category |-> category, status_code |-> status_code, file_name |-> <<>>]

\* ClientError(message, detail): status_code defaults to 400
ClientError == AppError("CLIENT_ERROR", HTTP_400_BAD_REQUEST)

ResourceNotFoundError == AppError("RESOURCE_ERROR", HTTP_404_NOT_FOUND)

\* Response(content, headers={"Content-Disposition": attachment; filename=...})
FileResponse(file_name) ==
  [category |-> "none", status_code |-> 200, file_name |-> file_name]

valid_formats ==
  {<<"o", "b", "j">>, <<"s", "t", "l">>, <<"s", "t", "e", "p">>, <<"g">>}

\* What the HTTP client does in get_model_file: a response with a status
\* code, or httpx.RequestError.
HttpOutcomes ==
  { [kind |-> "response", status_code |-> c] : c \in {200, 404, 500} }
    \cup { [kind |-> "RequestError", status_code |-> 0] }

\* The dict get_model_file returns for an outcome of the HTTP call.
get_model_file_result(fname, http) ==
  IF http.kind = "RequestError"
  THEN [status |-> HTTP_503_SERVICE_UNAVAILABLE, filename |-> <<>>]
  ELSE IF http.status_code = 200
  THEN [status |-> 200, filename |-> base_filename(fname)]
  ELSE [status |-> http.status_code, filename |-> <<>>]

GatewayFileNames ==
  { <<>>,
    <<"p", "l", "a", "i", "n">>,
    <<"w", "-", "a", "b", "c">>,
    <<"w", "-", "a", "b", "c", ".", "o", "b", "j">>,
    <<"w", "-", "a", "b", "c", ".", "s", "t", "p">>,
    <<"a", ".", "b", ".", "s", "t", "l">> }

GatewayFormats ==
  valid_formats \cup
    { <<>>, <<"s", "t", "p">>, <<"p", "n", "g">>, <<"O", "B", "J">>,
      <<"o", "b", "j", " ">> }

InitGateway ==
  /\ filename \in GatewayFileNames
  /\ format \in GatewayFormats
  /\ pc = "validate"
  /\ trace = <<>> /\ remote = <<>> /\ response = <<>>
  /\ parsed = <<>> /\ extracted = <<>>
  /\ IdentIdle /\ CodecIdle

\* if format not in valid_formats: raise ClientError(...)
RejectFormat ==
  /\ pc = "validate"
  /\ format \notin valid_formats
  /\ response' = <<ClientError>>
  /\ pc' = "done"
  /\ UNCHANGED <<filename, format, trace, remote, parsed, extracted,
                 identVars, codecVars>>

\* The format is valid: the handler goes on to the call of get_model_file.
AcceptFormat ==
  /\ pc = "validate"
  /\ format \in valid_formats
  /\ pc' = "get_model_file"
  /\ UNCHANGED <<filename, format, trace, remote, response, parsed, extracted,
                 identVars, codecVars>>

\* result = await clojure_service.get_model_file(filename, format)
GetModelFile ==
  /\ pc = "get_model_file"
  /\ \E http \in HttpOutcomes :
       remote' = <<get_model_file_result(filename, http)>>
  /\ trace' = trace \o <<"base_filename", "http_get">>
  /\ pc' = "respond"
  /\ UNCHANGED <<filename, format, response, parsed, extracted,
                 identVars, codecVars>>

\* if result["status"] != 200: raise ResourceNotFoundError(...)
RaiseNotFound ==
  /\ pc = "respond"
  /\ remote[1].status # 200
  /\ response' = <<ResourceNotFoundError>>
  /\ pc' = "done"
  /\ UNCHANGED <<filename, format, trace, remote, parsed, extracted,
                 identVars, codecVars>>

\* The download name is built and the file is returned.
ReturnFile ==
  /\ pc = "respond"
  /\ remote[1].status = 200
  /\ LET base_name == base_filename(filename)
         file_name == with_extension(base_name, format)
     IN  response' = <<FileResponse(file_name)>>
  /\ trace' = trace \o <<"base_filename", "with_extension">>
  /\ pc' = "done"
  /\ UNCHANGED <<filename, format, remote, parsed, extracted,
                 identVars, codecVars>>

NextGateway ==
  RejectFormat \/ AcceptFormat \/ GetModelFile \/ RaiseNotFound \/ ReturnFile

SpecGateway == InitGateway /\ [][NextGateway]_vars

-----------------------------------------------------------------------------
(* Error responses: routers/models.py generate_model, utils/errors.py *)

HTTP_500_INTERNAL_SERVER_ERROR == 500
HTTP_502_BAD_GATEWAY == 502

\* ClientError(message, status_code=status_code, detail)
ClientErrorWith(status_code) == AppError("CLIENT_ERROR", status_code)

ExternalServiceError == AppError("EXTERNAL_SERVICE_ERROR", HTTP_502_BAD_GATEWAY)

ServerError == AppError("SERVER_ERROR", HTTP_500_INTERNAL_SERVER_ERROR)

\* return result["data"]: the JSON response FastAPI builds, status 200.
DataResponse == [category |-> "none", status_code |-> 200, file_name |-> <<>>]

\* An exception on its way to global_exception_handler: an AppError with the
\* response it carries, an HTTPException with its status, or any other.
RaisedAppError(error) == [class |-> "AppError", error |-> error]
HTTPException(status_code) ==
  [class |-> "HTTPException", error |-> AppError("none", status_code)]
OtherException == [class |-> "Exception", error |-> AppError("none", 0)]

global_exception_handler(exc) ==
  IF exc.class = "AppError" THEN exc.error
  ELSE IF exc.class = "HTTPException"
    THEN ClientErrorWith(exc.error.status_code)
  ELSE ServerError

\* converted_params: "_" in a key becomes "-", a later key wins a collision.
RECURSIVE ConvertedParams(_, _)
ConvertedParams(ps, acc) ==
  IF ps = <<>> THEN acc
  ELSE ConvertedParams(Tail(ps),
         DictSet(acc, Replace(Head(ps).k, <<"_">>, <<"-">>), Head(ps).v))

\* What the remote service does with the POST: a response with a status and a
\* body that is JSON or not, or a transport failure.
GenerateOutcomes ==
  { [kind |-> "response", status_code |-> c, json |-> j] :
      c \in {200, 201, 204, 302, 400, 404, 422, 500, 503}, j \in BOOLEAN }
    \cup { [kind |-> "RequestError", status_code |-> 0, json |-> FALSE] }

\* What clojure_service.generate_model returns or raises for an outcome:
\* response.json() of a 200 body that is not JSON raises past the handler of
\* httpx.RequestError.
service_generate_model(http) ==
  IF http.kind = "RequestError"
  THEN [status |-> HTTP_503_SERVICE_UNAVAILABLE, exc |-> "none"]
  ELSE IF http.status_code = 200 /\ ~http.json
  THEN [status |-> 200, exc |-> "JSONDecodeError"]
  ELSE [status |-> http.status_code, exc |-> "none"]

\* Statuses of the HTTPException the framework raises for a request: a body
\* that cannot be parsed, missing or refused credentials, no such resource.
HTTPExceptionStatuses == {400, 401, 403, 404}

GenerateIdle == filename = <<>> /\ parsed = <<>> /\ extracted = <<>> /\ format = <<>>

InitGenerate ==
  /\ model_type \in IdentModelTypes
  /\ params \in ParamDicts
  /\ identifier = <<>>
  /\ CodecIdle
  /\ GenerateIdle
  /\ pc = "generate_model"
  /\ trace = <<>>
  /\ remote = <<>>
  /\ response = <<>>

\* result = await clojure_service.generate_model(model_type, params)
ServiceGenerateModel ==
  /\ pc = "generate_model"
  /\ trace' = <<ConvertedParams(params, <<>>)>>
  /\ \E http \in GenerateOutcomes : remote' = <<service_generate_model(http)>>
  /\ pc' = "result"
  /\ UNCHANGED <<response, filename, format, parsed, extracted,
                 identVars, codecVars>>

\* The service call raised: the exception reaches global_exception_handler.
GenerateUnhandled ==
  /\ pc = "result"
  /\ remote[1].exc # "none"
  /\ response' = <<global_exception_handler(OtherException)>>
  /\ pc' = "done"
  /\ UNCHANGED <<trace, remote, filename, format, parsed, extracted,
                 identVars, codecVars>>

\* if result["status"] != 200: if result["status"] < 500: raise ClientError
GenerateClientError ==
  /\ pc = "result"
  /\ remote[1].exc = "none"
  /\ remote[1].status # 200
  /\ remote[1].status < 500
  /\ response' = <<global_exception_handler(
                     RaisedAppError(ClientErrorWith(remote[1].status)))>>
  /\ pc' = "done"
  /\ UNCHANGED <<trace, remote, filename, format, parsed, extracted,
                 identVars, codecVars>>

\* else: raise ExternalServiceError
GenerateExternalServiceError ==
  /\ pc = "result"
  /\ remote[1].exc = "none"
  /\ remote[1].status # 200
  /\ ~(remote[1].status < 500)
  /\ response' = <<global_exception_handler(
                     RaisedAppError(ExternalServiceError))>>
  /\ pc' = "done"
  /\ UNCHANGED <<trace, remote, filename, format, parsed, extracted,
                 identVars, codecVars>>

\* return result["data"]
GenerateReturn ==
  /\ pc = "result"
  /\ remote[1].exc = "none"
  /\ remote[1].status = 200
  /\ response' = <<DataResponse>>
  /\ pc' = "done"
  /\ UNCHANGED <<trace, remote, filename, format, parsed, extracted,
                 identVars, codecVars>>

\* The request ends with an HTTPException, which the handler converts.
ConvertHTTPException ==
  /\ pc = "generate_model"
  /\ \E status_code \in HTTPExceptionStatuses :
       response' = <<global_exception_handler(HTTPException(status_code))>>
  /\ pc' = "done"
  /\ UNCHANGED <<trace, remote, filename, format, parsed, extracted,
                 identVars, codecVars>>

NextGenerate ==
  \/ ServiceGenerateModel
  \/ GenerateUnhandled
  \/ GenerateClientError
  \/ GenerateExternalServiceError
  \/ GenerateReturn
  \/ ConvertHTTPException

SpecGenerate == InitGenerate /\ [][NextGenerate]_vars

-----------------------------------------------------------------------------
(* Model types: services/clojure_service.py get_model_types, config.py *)

\* JSON values as Python holds them after response.json(); NotJson is a body
\* on which response.json() raises.
JStr(s) == [kind |-> "str", s |-> s, items |-> <<>>]
JList(items) == [kind |-> "list", s |-> <<>>, items |-> items]
JDict(entries) == [kind |-> "dict", s |-> <<>>, items |-> entries]
JInt == [kind |-> "int", s |-> <<>>, items |-> <<>>]
JNull == [kind |-> "null", s |-> <<>>, items |-> <<>>]
NotJson == [kind |-> "invalid", s |-> <<>>, items |-> <<>>]

MODEL_TYPES_KEY == <<"m", "o", "d", "e", "l", "_", "t", "y", "p", "e", "s">>

WASHER == JStr(<<"w", "a", "s", "h", "e", "r">>)
CYLINDER == JStr(<<"c", "y", "l", "i", "n", "d", "e", "r">>)
GEAR == JStr(<<"g", "e", "a", "r">>)

DEFAULT_MODEL_TYPES == JList(<<WASHER, CYLINDER>>)

\* {"model_types": DEFAULT_MODEL_TYPES}
FallbackTypes == JDict(<<Entry(MODEL_TYPES_KEY, DEFAULT_MODEL_TYPES)>>)

\* "model_types" in data: a key test on a dict, an element test on a list, a
\* substring test on a str, TypeError on a value that is not a container.
InData(data) ==
  CASE data.kind = "dict" ->
         Return(\E i \in 1..Len(data.items) : data.items[i].k = MODEL_TYPES_KEY)
    [] data.kind = "list" ->
         Return(\E i \in 1..Len(data.items) :
                  data.items[i] = JStr(MODEL_TYPES_KEY))
    [] data.kind = "str" -> Return(Contains(data.s, MODEL_TYPES_KEY))
    [] OTHER -> Raise("TypeError")

\* data.get("model_types", DEFAULT_MODEL_TYPES): only a dict has get.
DataGet(data) ==
  IF data.kind # "dict" THEN Raise("AttributeError")
  ELSE IF \E i \in 1..Len(data.items) : data.items[i].k = MODEL_TYPES_KEY
  THEN Return(data.items[CHOOSE i \in 1..Len(data.items) :
                            data.items[i].k = MODEL_TYPES_KEY].v)
  ELSE Return(DEFAULT_MODEL_TYPES)

\* The body of the inner try block.
ParseModelTypes(body) ==
  IF body.kind = "invalid" THEN Raise("JSONDecodeError")
  ELSE LET data == body
           found == InData(data)
       IN  IF found.exc # "none" THEN found
           ELSE IF found.v THEN Return(data)
           ELSE LET got == DataGet(data)
                IN  IF got.exc # "none" THEN got
                    ELSE Return(JDict(<<Entry(MODEL_TYPES_KEY, got.v)>>))

\* except Exception: return the fallback
ExceptException(outcome, fallback) ==
  IF outcome.exc # "none" THEN Return(fallback) ELSE outcome

get_model_types(http) ==
  IF http.kind = "RequestError" THEN Return(FallbackTypes)
  ELSE IF http.status_code # 200 THEN Return(FallbackTypes)
  ELSE ExceptException(ParseModelTypes(http.body), FallbackTypes)

TypeLists ==
  { JList(<<>>), JList(<<GEAR>>), JList(<<WASHER, CYLINDER>>),
    JList(<<GEAR, WASHER>>) }

\* Bodies the remote service can send.
TypeBodies ==
  { NotJson, JInt, JNull, JDict(<<>>),
    JStr(MODEL_TYPES_KEY), WASHER, JList(<<JStr(MODEL_TYPES_KEY)>>),
    JList(<<WASHER, JStr(MODEL_TYPES_KEY)>>) }
    \cup TypeLists
    \cup { JDict(<<Entry(MODEL_TYPES_KEY, l)>>) : l \in TypeLists }
    \cup { JDict(<<Entry(GEAR.s, l)>>) : l \in TypeLists }
    \cup { JDict(<<Entry(GEAR.s, JNull), Entry(MODEL_TYPES_KEY, l)>>) :
             l \in TypeLists }

TypesOutcomes ==
  { [kind |-> "response", status_code |-> c, body |-> b] :
      c \in {200, 204, 404, 500, 503}, b \in TypeBodies }
    \cup { [kind |-> "RequestError", status_code |-> 0, body |-> NotJson] }

InitTypes ==
  /\ IdentIdle
  /\ CodecIdle
  /\ GenerateIdle
  /\ pc = "get_model_types"
  /\ trace = <<>>
  /\ remote = <<>>
  /\ response = <<>>

\* response = await client.get(".../models/types")
TypesRequest ==
  /\ pc = "get_model_types"
  /\ \E http \in TypesOutcomes : remote' = <<http>>
  /\ pc' = "response"
  /\ UNCHANGED <<trace, response, filename, format, parsed, extracted,
                 identVars, codecVars>>

\* The rest of get_model_types; the route returns its result.
TypesReturn ==
  /\ pc = "response"
  /\ response' = <<get_model_types(remote[1])>>
  /\ pc' = "done"
  /\ UNCHANGED <<trace, remote, filename, format, parsed, extracted,
                 identVars, codecVars>>

NextTypes == TypesRequest \/ TypesReturn

SpecTypes == InitTypes /\ [][NextTypes]_vars

-----------------------------------------------------------------------------
(* An identifier handed back as a filename: clojure_service.py render_model, *)
(* filename_utils.py extract_model_type and parse_params_from_filename       *)

\* Model types with and without the separators "-", "." and "=".
NamedModelTypes ==
  IdentModelTypes \cup
    { <<"a", ".", "b">>, <<"k", "=", "5">>, <<"a", "-", "k", "=", "5">> }

InitNamed ==
  /\ model_type \in NamedModelTypes
  /\ params \in ParamDicts
  /\ identifier = <<>>
  /\ CodecIdle /\ LegacyIdle /\ GatewayIdle

\* The identifier comes back as the filename, as it is.
NameIdentifier ==
  /\ identifier # <<>>
  /\ filename = <<>>
  /\ filename' = identifier[1]
  /\ UNCHANGED <<parsed, extracted, identVars, codecVars, gatewayVars>>

\* The identifier comes back as with_extension(identifier, format).
NameWithExtension ==
  /\ identifier # <<>>
  /\ filename = <<>>
  /\ \E fmt \in DOMAIN FORMAT_EXTENSIONS :
       /\ filename' = with_extension(identifier[1], fmt)
       /\ format' = fmt
  /\ UNCHANGED <<pc, trace, remote, response, parsed, extracted,
                 identVars, codecVars>>

NextNamed ==
  \/ GenerateModelFilename
  \/ NameIdentifier
  \/ NameWithExtension
  \/ (filename # <<>> /\ ExtractModelType)
  \/ (filename # <<>> /\ ParseParamsFromFilename)

SpecNamed == InitNamed /\ [][NextNamed]_vars

-----------------------------------------------------------------------------
(* Claims about the identity encoder *)

\* The key begins with the eight characters p-o-s-i-t-i-o-n, case-sensitive.
HasPositionPrefix(k) ==
  Len(k) >= 8 /\ \A i \in 1..8 : k[i] = POSITION[i]

\* The entries of a dict whose keys do not begin with "position".
IdentityEntries(d) == {d[i] : i \in {j \in 1..Len(d) : ~HasPositionPrefix(d[j].k)}}

HasKey(d, k) == \E i \in 1..Len(d) : d[i].k = k

\* C1: position parameters never influence the identifier: every parameter set
\* q that has the same entries as params for the keys that do not begin with
\* "position" gets the identifier of params.
C1_PositionIndependent ==
  identifier # <<>> =>
    \A q \in ParamDicts :
      IdentityEntries(q) = IdentityEntries(params) =>
        generate_model_filename(model_type, q) = identifier[1]

\* An identifier was computed from a dict holding an identity key and the
\* key positionX.
C1_Witness ==
  /\ identifier # <<>>
  /\ HasKey(params, <<"i", "d">>)
  /\ HasKey(params, POSITION \o <<"X">>)

\* The dict p with its entries in the order perm (a permutation of 1..Len(p)).
Reordered(p, perm) == [i \in 1..Len(p) |-> p[perm[i]]]

\* C2: the identifier does not depend on the insertion order of the entries:
\* every permutation of the entries of params gets the identifier of params.
C2_OrderIndependent ==
  identifier # <<>> =>
    \A perm \in Permutations(1..Len(params)) :
      generate_model_filename(model_type, Reordered(params, perm)) = identifier[1]

\* An identifier was computed from a dict whose two identity keys were
\* inserted in descending order.
C2_Witness ==
  /\ identifier # <<>>
  /\ Len(params) >= 2
  /\ params[1].k = <<"i", "d">>
  /\ params[2].k = <<"P", "o", "s", "i", "t", "i", "o", "n">>

UnsafeHashChars == {"/", "+", "=", ".", "-"}

\* C4: the identifier is the model type, one "-", and a short hash of exactly
\* 10 characters none of which is "/", "+", "=", "." or "-".
C4_IdentifierShape ==
  identifier # <<>> =>
    LET id == identifier[1]
        n == Len(model_type)
    IN  /\ Len(id) = n + 11
        /\ SubSeq(id, 1, n) = model_type
        /\ id[n + 1] = "-"
        /\ \A i \in (n + 2)..(n + 11) : id[i] \notin UnsafeHashChars

\* An identifier of the empty model type was computed, it starts with the
\* hyphen, and its base64 text held a "/" or "+" among the characters kept.
C4_Witness ==
  /\ identifier # <<>>
  /\ model_type = <<>>
  /\ identifier[1][1] = "-"
  /\ \E i \in 1..HashLen :
       HashEncoded(model_type, FilteredParams(params))[i] \in {"/", "+"}

Keys(d) == {d[i].k : i \in 1..Len(d)}

ValueOf(d, k) == d[CHOOSE i \in 1..Len(d) : d[i].k = k].v

\* Two (model type, filtered parameter set) pairs differ in the model type,
\* in the set of keys, or in the string form of the value of some key.
PairsDiffer(t1, p1, t2, p2) ==
  \/ t1 # t2
  \/ Keys(p1) # Keys(p2)
  \/ \E k \in Keys(p1) \cap Keys(p2) : Str(ValueOf(p1, k)) # Str(ValueOf(p2, k))

\* C3: two (model type, filtered parameter set) pairs that differ in the model
\* type, in the key set or in the string form of a value are hashed from
\* different texts.
C3_DistinctHashInputs ==
  identifier # <<>> =>
    \A t2 \in CanonModelTypes : \A q \in CanonDicts :
      PairsDiffer(model_type, FilteredParams(params), t2, FilteredParams(q)) =>
        ParamStr(t2, FilteredParams(q)) # ParamStr(model_type, FilteredParams(params))

-----------------------------------------------------------------------------
(* Claims about the legacy value codec *)

\* The string parses as a number: int() or float() accepts it.
ParsesAsNumber(s) == PyInt(s).exc = "none" \/ PyFloat(s).exc = "none"

\* The decoded value is the value that was encoded.
RoundTrips ==
  /\ decoded[1].exc = "none"
  /\ decoded[1].v.t = value.t
  /\ PyEq(decoded[1].v, value)

\* The values C5 is stated for: every integer, every float written with a
\* "." and every string that does not parse as a number and holds none of
\* "_dot_", "_slash_", "_backslash_".
C5_ScopeAsStated ==
  \/ value.t \in {"int", "float"}
  \/ /\ value.t = "str"
     /\ ~ParsesAsNumber(value.s)
     /\ ~Contains(value.s, DOT)
     /\ ~Contains(value.s, SLASH)
     /\ ~Contains(value.s, BACKSLASH)

\* C5 as stated: encode followed by decode gives back every value of
\* C5_ScopeAsStated.
C5_RoundTripAsStated == (decoded # <<>> /\ C5_ScopeAsStated) => RoundTrips

\* The values of the amended C5: every integer, every float written with a
\* "." and every string that does not parse as a number and holds neither
\* the substring "dot" nor the substring "slash".
C5_Scope ==
  \/ value.t \in {"int", "float"}
  \/ /\ value.t = "str"
     /\ ~ParsesAsNumber(value.s)
     /\ ~Contains(value.s, <<"d", "o", "t">>)
     /\ ~Contains(value.s, <<"s", "l", "a", "s", "h">>)

\* C5 amended: encode followed by decode gives back every integer, every
\* float written with a "." and every string that does not parse as a number
\* and holds neither "dot" nor "slash".
C5_RoundTrip == (decoded # <<>> /\ C5_Scope) => RoundTrips

\* The string a/b.c\d went through encode and decode and came back.
C5_Witness ==
  /\ decoded # <<>>
  /\ value = StrV(<<"a", "/", "b", ".", "c", "\\", "d">>)
  /\ encoded[1] = <<"a">> \o SLASH \o <<"b">> \o DOT \o <<"c">> \o BACKSLASH \o <<"d">>
  /\ RoundTrips

-----------------------------------------------------------------------------
(* Claims about the legacy decoder *)

\* C6: for a legacy filename <type>-<k1>=<e1>_<k2>=<e2>.<ext> with
\* ei = encode_param_value(vi), parse_params_from_filename maps every ki to
\* decode_param_value(ei).
C6_LegacyReversed ==
  parsed # <<>> =>
    \A l \in LegacyInputs :
      LegacyName(l) = filename =>
        /\ parsed[1].exc = "none"
        /\ \A i \in 1..Len(l.pairs) :
             /\ HasKey(parsed[1].v, l.pairs[i].k)
             /\ ValueOf(parsed[1].v, l.pairs[i].k)
                  = decode_param_value(encode_param_value(l.pairs[i].v)).v

Max(S) == CHOOSE x \in S : \A y \in S : y <= x
Min(S) == CHOOSE x \in S : \A y \in S : x <= y

Positions(s, c) == {i \in 1..Len(s) : s[i] = c}

\* The name without the part from its last "." onward.
StrippedName(f) ==
  IF Positions(f, ".") = {} THEN f ELSE SubSeq(f, 1, Max(Positions(f, ".")) - 1)

\* C7: parse_params_from_filename never ends in an error and returns a
\* mapping (no key twice); the mapping is empty when the extension-stripped
\* name holds no "-".
C7_ParseTotal ==
  parsed # <<>> =>
    /\ parsed[1].exc = "none"
    /\ Cardinality(Keys(parsed[1].v)) = Len(parsed[1].v)
    /\ Positions(StrippedName(filename), "-") = {} => parsed[1].v = <<>>

\* A filename whose raw value 1.2.3 is a malformed number was parsed, and the
\* value was kept as a string.
C7_Witness ==
  /\ parsed # <<>>
  /\ filename = <<"t", "-", "k", "=", "1", ".", "2", ".", "3", ".", "o", "b", "j">>
  /\ parsed[1].exc = "none"
  /\ parsed[1].v = <<Entry(<<"k">>, StrV(<<"1", ".", "2", ".", "3">>))>>

\* C8: extract_model_type(filename) is what remains of the extension-stripped
\* name before its first "-", or all of it when it holds no "-".
C8_ModelTypeExtracted ==
  extracted # <<>> =>
    LET b == StrippedName(filename)
    IN  extracted[1] =
          IF Positions(b, "-") = {} THEN b
          ELSE SubSeq(b, 1, Min(Positions(b, "-")) - 1)

\* The model type of washer-abc123.obj was extracted, and is washer.
C8_Witness ==
  /\ extracted # <<>>
  /\ filename =
       <<"w", "a", "s", "h", "e", "r", "-", "a", "b", "c", "1", "2", "3", ".", "o", "b", "j">>
  /\ extracted[1] = <<"w", "a", "s", "h", "e", "r">>

\* The text after the first "-" of the extension-stripped name.
ParamText(f) ==
  LET b == StrippedName(f)
  IN  SubSeq(b, Min(Positions(b, "-")) + 1, Len(b))

\* The candidates of a text, each named by the position before its first
\* character: the stretches between two neighbouring cuts, the cuts being
\* the "_" of the text and its two ends.
Cuts(text) == {0, Len(text) + 1} \cup Positions(text, "_")

CandidateStarts(text) == Cuts(text) \ {Len(text) + 1}

CandidateAt(text, a) ==
  SubSeq(text, a + 1, Min({c \in Cuts(text) : c > a}) - 1)

CandidateKey(c) == SubSeq(c, 1, Min(Positions(c, "=")) - 1)

CandidateRaw(c) == SubSeq(c, Min(Positions(c, "=")) + 1, Len(c))

\* Coercion of a raw value: float if it holds ".", else integer, the string
\* itself when the parse fails.
Coerced(raw) ==
  LET r == IF Positions(raw, ".") # {} THEN PyFloat(raw) ELSE PyInt(raw)
  IN  IF r.exc = "none" THEN r.v ELSE StrV(raw)

\* The mapping C9 describes, as a set of entries.
DescribedMapping(f) ==
  IF Positions(StrippedName(f), "-") = {} THEN {}
  ELSE LET text == ParamText(f)
           pairs == {a \in CandidateStarts(text) :
                       Positions(CandidateAt(text, a), "=") # {}}
           last(k) == Max({a \in pairs : CandidateKey(CandidateAt(text, a)) = k})
       IN  { Entry(k, Coerced(CandidateRaw(CandidateAt(text, last(k))))) :
               k \in {CandidateKey(CandidateAt(text, a)) : a \in pairs} }

\* C9: parse_params_from_filename returns the mapping made of the candidates
\* with "=" of the text after the first "-", split on "_", each cut at its
\* first "=" and its raw value coerced, the last candidate of a key winning.
C9_ParsedMapping ==
  parsed # <<>> =>
    /\ parsed[1].exc = "none"
    /\ Cardinality(Keys(parsed[1].v)) = Len(parsed[1].v)
    /\ {parsed[1].v[i] : i \in 1..Len(parsed[1].v)} = DescribedMapping(filename)

\* cylinder-radius=5_height=10.obj was parsed into radius 5 and height 10,
\* both integers.
C9_Witness ==
  /\ parsed # <<>>
  /\ filename = <<"c", "y", "l", "i", "n", "d", "e", "r", "-",
                  "r", "a", "d", "i", "u", "s", "=", "5", "_",
                  "h", "e", "i", "g", "h", "t", "=", "1", "0", ".", "o", "b", "j">>
  /\ parsed[1].v = << Entry(<<"r", "a", "d", "i", "u", "s">>, IntV(5)),
                      Entry(<<"h", "e", "i", "g", "h", "t">>, IntV(10)) >>

-----------------------------------------------------------------------------
(* Claims about the gateway *)

\* The formats C10 names, each with its extension.
NamedExtension ==
  [f \in {<<"o", "b", "j">>, <<"s", "t", "l">>, <<"s", "t", "e", "p">>, <<"g">>} |->
     CASE f = <<"o", "b", "j">> -> <<"o", "b", "j">>
       [] f = <<"s", "t", "l">> -> <<"s", "t", "l">>
       [] f = <<"s", "t", "e", "p">> -> <<"s", "t", "p">>
       [] f = <<"g">> -> <<"g">>]

\* The text after the last "." of a name.
ExtensionOf(name) == SubSeq(name, Max(Positions(name, ".")) + 1, Len(name))

\* C10: for a format outside obj, stl, step, g no call of the remote service
\* and no filename function is ever made and the handler ends in a client
\* error; for a format among them the extension of the download filename is
\* obj, stl, stp, g respectively.
C10_FormatGate ==
  /\ format \notin DOMAIN NamedExtension =>
       /\ trace = <<>> /\ remote = <<>>
       /\ pc \in {"validate", "done"}
       /\ pc = "done" =>
            /\ response # <<>>
            /\ response[1].category = "CLIENT_ERROR"
            /\ response[1].status_code \in 400..499
  /\ (response # <<>> /\ response[1].category = "none") =>
       /\ format \in DOMAIN NamedExtension
       /\ Positions(response[1].file_name, ".") # {}
       /\ ExtensionOf(response[1].file_name) = NamedExtension[format]

\* The format stp, which is an extension and no format, was rejected with a
\* client error before any call.
C10_Witness ==
  /\ pc = "done"
  /\ format = <<"s", "t", "p">>
  /\ trace = <<>>
  /\ response = <<ClientError>>

-----------------------------------------------------------------------------
(* Claims about the scans of the legacy value codec *)

\* One left-to-right scan that replaces each escape word it meets by its
\* character and goes on after the word.
RECURSIVE ScanDecode(_)
ScanDecode(s) ==
  IF s = <<>> THEN <<>>
  ELSE IF StartsWith(s, DOT) THEN <<".">> \o ScanDecode(Drop(s, Len(DOT)))
  ELSE IF StartsWith(s, SLASH) THEN <<"/">> \o ScanDecode(Drop(s, Len(SLASH)))
  ELSE IF StartsWith(s, BACKSLASH)
    THEN <<"\\">> \o ScanDecode(Drop(s, Len(BACKSLASH)))
  ELSE <<Head(s)>> \o ScanDecode(Tail(s))

\* C11: what decode_param_value returns is the numeric coercion of the text
\* that one left-to-right, non-overlapping scan for the three escape words
\* gives.
C11_SingleScanDecode ==
  decoded # <<>> =>
    /\ decoded[1].exc = "none"
    /\ decoded[1].v = Coerced(ScanDecode(encoded[1]))

\* One left-to-right scan that replaces each ".", "/", "\" by its escape word.
ScanEncode(s) ==
  LET word(c) == CASE c = "." -> DOT
                   [] c = "/" -> SLASH
                   [] c = "\\" -> BACKSLASH
                   [] OTHER -> <<c>>
      F[i \in 0..Len(s)] == IF i = 0 THEN <<>> ELSE F[i - 1] \o word(s[i])
  IN  F[Len(s)]

\* C12: the output of encode_param_value is the single-scan encoding of the
\* string form of the value, and holds no ".", "/" or "\".
C12_SingleScanEncode ==
  (encoded # <<>> /\ value.t # "none") =>
    /\ encoded[1] = ScanEncode(Str(value))
    /\ \A i \in 1..Len(encoded[1]) : encoded[1][i] \notin {".", "/", "\\"}

\* The string a/b.c\d was encoded, each of its three special characters by
\* its escape word.
C12_Witness ==
  /\ encoded # <<>>
  /\ value = StrV(<<"a", "/", "b", ".", "c", "\\", "d">>)
  /\ encoded[1] = ScanEncode(value.s)
  /\ Len(encoded[1]) = 4 + Len(DOT) + Len(SLASH) + Len(BACKSLASH)

-----------------------------------------------------------------------------
(* Claims about error responses *)

\* C13: a response of category CLIENT_ERROR has a status code in 400..499.
C13_ClientErrorIs4xx ==
  (response # <<>> /\ response[1].category = "CLIENT_ERROR") =>
    response[1].status_code \in 400..499

\* C14: get_model_types raises nothing; it returns the body as received when
\* the status is 200 and the body is a JSON object with a "model_types" key,
\* and {"model_types": DEFAULT_MODEL_TYPES} for every other outcome.
C14_FallsBack ==
  response # <<>> =>
    LET http == remote[1]
        carries ==
          /\ http.kind = "response"
          /\ http.status_code = 200
          /\ http.body.kind = "dict"
          /\ \E i \in 1..Len(http.body.items) :
               http.body.items[i].k = MODEL_TYPES_KEY
    IN  /\ response[1].exc = "none"
        /\ response[1].v = (IF carries THEN http.body ELSE FallbackTypes)

-----------------------------------------------------------------------------
(* Claims about an identifier read back as a filename *)

\* The filename is the identifier of model_type and params, bare or with the
\* extension of the format chosen.
NamedFromIdentifier ==
  /\ identifier = <<generate_model_filename(model_type, params)>>
  /\ filename = (IF format = <<>> THEN identifier[1]
                 ELSE with_extension(identifier[1], format))

\* C15: for a model type without "-" and ".", extract_model_type gives the
\* model type back from the identifier, bare or with an extension, and so
\* does render_model's extract_model_type(base_filename(filename)).
C15_ModelTypeSurvives ==
  (/\ extracted # <<>>
   /\ NamedFromIdentifier
   /\ ~Contains(model_type, <<"-">>)
   /\ ~Contains(model_type, <<".">>)) =>
    /\ extracted[1] = model_type
    /\ extract_model_type(base_filename(filename)) = model_type

\* The washer of two identity parameters was named with the step format and
\* its model type extracted from the .stp name.
C15_Witness ==
  /\ extracted = <<model_type>>
  /\ model_type = <<"w", "a", "s", "h", "e", "r">>
  /\ Len(FilteredParams(params)) = 2
  /\ format = <<"s", "t", "e", "p">>
  /\ NamedFromIdentifier
  /\ Drop(filename, Len(identifier[1])) = <<".", "s", "t", "p">>

\* C16: for a model type without "-", parse_params_from_filename gives the
\* empty mapping on the identifier, bare or with an extension.
C16_NotLegacy ==
  (/\ parsed # <<>>
   /\ NamedFromIdentifier
   /\ ~Contains(model_type, <<"-">>)) =>
    parsed[1] = Return(<<>>)

\* An identifier of a non-empty parameter set whose hash holds "_", so that
\* the text after "-" splits into several candidates, was parsed to {}.
C16_Witness ==
  /\ parsed = <<Return(<<>>)>>
  /\ NamedFromIdentifier
  /\ model_type = <<"w", "a", "s", "h", "e", "r">>
  /\ FilteredParams(params) # <<>>
  /\ Contains(Drop(identifier[1], Len(model_type) + 1), <<"_">>)
  /\ format = <<"o", "b", "j">>

=============================================================================
